---------------------------- MODULE Spec2Model ----------------------------
(***************************************************************************)
(* A model of the Mixpanel HTTP client of src/mixpanel.go: the client      *)
(* value, the caller's property maps (Go maps are references, so they live *)
(* in a heap), and every public operation as the sequence of steps its     *)
(* code takes: build the envelope, json.Marshal it, base64-encode it,      *)
(* http.Get it, read the body, interpret the body.                         *)
(***************************************************************************)
EXTENDS Integers, Sequences, FiniteSets, TLC

(***************************************************************************)
(* Bounds of the model.                                                    *)
(***************************************************************************)
\* The number of goroutines of the caller that may be inside a call at once.
MaxCalls == 2
\* The number of property maps the caller owns.
MaxMaps == 2

Calls == 1 .. MaxCalls
CallerRefs == 1 .. MaxMaps
\* The map a call allocates itself (the map literal of line 120).
PrivRef(c) == MaxMaps + c
Refs == 1 .. (MaxMaps + MaxCalls)
NilRef == 0

(***************************************************************************)
(* Go values.  Every value carries its dynamic type, as an interface{}     *)
(* does.  A map[string]interface{} is a reference into the heap (0: nil).  *)
(***************************************************************************)
GoString(s) == [t |-> "string", v |-> s]
GoInt(n) == [t |-> "int", v |-> n]
GoMap(r) == [t |-> "map", v |-> r]
\* A map[string]int and a []string, passed by the caller and never shared.
GoIntMap(f) == [t |-> "intmap", v |-> f]
GoStrings(q) == [t |-> "strings", v |-> q]
\* A value encoding/json has no encoding for (a func, a chan).
GoFunc == [t |-> "func", v |-> 0]

\* The error values of the package and of the libraries it calls.
NilErr == "<nil>"
ErrUnexpectedTrackResponse == "Unexpected Mixpanel Track Response"
ErrUnexpectedEngageResponse == "Unexpected Mixpanel Engage Response"
ErrMarshal == "json: unsupported type: func()"
ErrConnect == "dial tcp: connection refused"
ErrRead == "unexpected EOF"

BASE_URL == "https://api.mixpanel.com"
NilPtr == [nil |-> TRUE]

(***************************************************************************)
(* Text.  The strings of the model and their bytes.                        *)
(***************************************************************************)
Chars ==
    ("" :> <<>>) @@
    ("event" :> <<101, 118, 101, 110, 116>>) @@
    ("properties" :> <<112, 114, 111, 112, 101, 114, 116, 105, 101, 115>>) @@
    ("token" :> <<116, 111, 107, 101, 110>>) @@
    ("$token" :> <<36, 116, 111, 107, 101, 110>>) @@
    ("$distinct_id" :> <<36, 100, 105, 115, 116, 105, 110, 99, 116, 95, 105, 100>>) @@
    ("$ip" :> <<36, 105, 112>>) @@
    ("$set" :> <<36, 115, 101, 116>>) @@
    ("$set_once" :> <<36, 115, 101, 116, 95, 111, 110, 99, 101>>) @@
    ("$add" :> <<36, 97, 100, 100>>) @@
    ("$append" :> <<36, 97, 112, 112, 101, 110, 100>>) @@
    ("$union" :> <<36, 117, 110, 105, 111, 110>>) @@
    ("$unset" :> <<36, 117, 110, 115, 101, 116>>) @@
    ("$delete" :> <<36, 100, 101, 108, 101, 116, 101>>) @@
    ("$create_alias" :> <<36, 99, 114, 101, 97, 116, 101, 95, 97, 108, 105, 97, 115>>) @@
    ("distinct_id" :> <<100, 105, 115, 116, 105, 110, 99, 116, 95, 105, 100>>) @@
    ("alias" :> <<97, 108, 105, 97, 115>>) @@
    ("T" :> <<84>>) @@
    ("U" :> <<85>>) @@
    ("e" :> <<101>>) @@
    ("d" :> <<100>>) @@
    ("k" :> <<107>>) @@
    ("v" :> <<118>>) @@
    ("w" :> <<119>>) @@
    ("a" :> <<97>>) @@
    ("b" :> <<98>>) @@
    ("n" :> <<110>>) @@
    ("9" :> <<57>>)

Strings == DOMAIN Chars

\* p < q in the byte order Go's sort.Strings uses.
RECURSIVE BytesLess(_, _)
BytesLess(p, q) ==
    IF q = <<>> THEN FALSE
    ELSE IF p = <<>> THEN TRUE
    ELSE IF Head(p) # Head(q) THEN Head(p) < Head(q)
    ELSE BytesLess(Tail(p), Tail(q))

\* The keys of a map in the order encoding/json writes them: sorted.
RECURSIVE SortedKeys(_)
SortedKeys(S) ==
    IF S = {} THEN <<>>
    ELSE LET k == CHOOSE x \in S : \A y \in S \ {x} : BytesLess(Chars[x], Chars[y])
         IN  <<k>> \o SortedKeys(S \ {k})

\* strconv's decimal digits of a non-negative integer.
RECURSIVE Digits(_)
Digits(n) == IF n < 10 THEN <<48 + n>> ELSE Digits(n \div 10) \o <<48 + (n % 10)>>

Itoa(n) == IF n < 0 THEN <<45>> \o Digits(0 - n) ELSE Digits(n)

Quote(s) == <<34>> \o Chars[s] \o <<34>>
JSONNull == <<110, 117, 108, 108>>

\* xs joined with commas.
RECURSIVE Join(_)
Join(xs) ==
    IF xs = <<>> THEN <<>>
    ELSE IF Len(xs) = 1 THEN Head(xs)
    ELSE Head(xs) \o <<44>> \o Join(Tail(xs))


(***************************************************************************)
(* json.Marshal (line 146).  Maps are written with their keys sorted, a    *)
(* nil map as null, and a value without an encoding makes the whole call   *)
(* fail.  The strings of the model hold no character that Go escapes.      *)
(***************************************************************************)
MarshalOK(bytes) == [ok |-> TRUE, bytes |-> bytes]
MarshalFail == [ok |-> FALSE, bytes |-> <<>>]

RECURSIVE MarshalValue(_, _)
RECURSIVE MarshalObject(_, _)
MarshalObject(f, h) ==
    LET keys == SortedKeys(DOMAIN f)
        parts == [i \in 1 .. Len(keys) |-> MarshalValue(f[keys[i]], h)]
    IN  IF \E i \in 1 .. Len(keys) : ~parts[i].ok THEN MarshalFail
        ELSE MarshalOK(<<123>>
                 \o Join([i \in 1 .. Len(keys) |->
                             Quote(keys[i]) \o <<58>> \o parts[i].bytes])
                 \o <<125>>)

MarshalValue(x, h) ==
    CASE x.t = "string" -> MarshalOK(Quote(x.v))
      [] x.t = "int" -> MarshalOK(Itoa(x.v))
      [] x.t = "map" -> IF x.v = NilRef THEN MarshalOK(JSONNull)
                        ELSE MarshalObject(h[x.v], h)
      [] x.t = "intmap" -> MarshalObject([k \in DOMAIN x.v |-> GoInt(x.v[k])], h)
      [] x.t = "strings" ->
            MarshalOK(<<91>> \o Join([i \in 1 .. Len(x.v) |-> Quote(x.v[i])]) \o <<93>>)
      [] OTHER -> MarshalFail

(***************************************************************************)
(* base64.StdEncoding.EncodeToString (line 151): three bytes make four     *)
(* characters of the standard alphabet, the last group padded with '='.    *)
(***************************************************************************)
B64Char(i) ==
    IF i < 26 THEN 65 + i
    ELSE IF i < 52 THEN 97 + (i - 26)
    ELSE IF i < 62 THEN 48 + (i - 52)
    ELSE IF i = 62 THEN 43 ELSE 47
B64Pad == 61

RECURSIVE EncodeToString(_)
EncodeToString(b) ==
    IF b = <<>> THEN <<>>
    ELSE IF Len(b) = 1 THEN
        <<B64Char(b[1] \div 4), B64Char((b[1] % 4) * 16), B64Pad, B64Pad>>
    ELSE IF Len(b) = 2 THEN
        <<B64Char(b[1] \div 4), B64Char((b[1] % 4) * 16 + b[2] \div 16),
          B64Char((b[2] % 16) * 4), B64Pad>>
    ELSE
        <<B64Char(b[1] \div 4), B64Char((b[1] % 4) * 16 + b[2] \div 16),
          B64Char((b[2] % 16) * 4 + b[3] \div 64), B64Char(b[3] % 64)>>
        \o EncodeToString(SubSeq(b, 4, Len(b)))

(***************************************************************************)
(* The state.                                                              *)
(***************************************************************************)
VARIABLES
    args,       \* the arguments NewMixpanelClient was called with
    m,          \* the *Mixpanel it returned: NilPtr or the struct
    heap,       \* the contents of every map[string]interface{}, by reference
    pc,         \* where each goroutine of the caller is in its call
    call,       \* the call's frame: the public method and its arguments
    props0,     \* the contents of the caller's map when the call began
    shared,     \* whether the call's map was used or written by anyone else
    data,       \* the local variable data of Track and engage
    req,        \* the URL get hands to http.Get: the path and the data
    response,   \* the first result of get
    err,        \* the second result of get
    result,     \* the error the public method returned
    crashed     \* the Go runtime stopped the process (a fatal error)

vars == <<args, m, heap, pc, call, props0, shared, data, req, response, err,
          result, crashed>>
frame == <<call, props0, data, req, response, err, result>>

NoCall ==
    [api |-> "", fn |-> "", name |-> "", op |-> "", props |-> GoString(""),
     ids |-> <<>>]
NoData == <<>>
NoReq == [url |-> "", data |-> <<>>]
NoResult == "-"

\* The inputs of the model.
ArgLists == {<<>>, <<"T">>, <<"T", "http://h">>, <<"T", "http://h", "x">>}
IPs == {"9", ""}
Events == {"e"}
DistinctIDs == {"d"}
AliasIDs == {<<"a", "b">>, <<"b", "a">>}
\* What ioutil.ReadAll returns: a body in full, or a part of one and an error.
Reads == {<<"1", NilErr>>, <<"0", NilErr>>, <<"", NilErr>>,
          <<"1", ErrRead>>, <<"0", ErrRead>>}
\* The caller's maps at the start: every second one already has a "token".
InitProps(r) ==
    IF r % 2 = 1 THEN ("k" :> GoString("v"))
    ELSE ("k" :> GoString("v")) @@ ("token" :> GoString("U"))
\* What the caller writes into a map of its own between or during calls.
CallerWrites == {<<"k", GoFunc>>}
MapArgs == {GoMap(r) : r \in {NilRef} \cup CallerRefs}
ProfileMapApis == {"ProfileSet", "ProfileSetOnce", "ProfileAppend", "ProfileUnion"}
\* The inputs a single goroutine draws its calls from.
Inputs ==
    [maps |-> MapArgs, apis |-> ProfileMapApis, ids |-> AliasIDs,
     reads |-> Reads]
\* The inputs concurrent goroutines draw their calls from.
ConcInputs ==
    [maps |-> {GoMap(r) : r \in CallerRefs}, apis |-> {"ProfileSet"},
     ids |-> {<<"a", "b">>}, reads |-> {<<"1", NilErr>>, <<"0", NilErr>>}]
AddArg == GoIntMap(("n" :> 10) @@ ("k" :> (0 - 1)))
UnsetArg == GoStrings(<<"k", "n">>)

(***************************************************************************)
(* NewMixpanelClient (lines 29-39).                                        *)
(***************************************************************************)
Mixpanel(token, baseURL) ==
    [Token |-> token, BaseURL |-> baseURL, OverrideIPAddress |-> ""]

NewMixpanelClient(a) ==
    IF Len(a) = 1 THEN Mixpanel(a[1], BASE_URL)
    ELSE IF Len(a) > 1 THEN Mixpanel(a[1], a[2])
    ELSE NilPtr

Init ==
    /\ args \in ArgLists
    /\ m = NewMixpanelClient(args)
    /\ heap = [r \in Refs |-> IF r \in CallerRefs THEN InitProps(r) ELSE <<>>]
    /\ pc = [c \in Calls |-> "idle"]
    /\ call = [c \in Calls |-> NoCall]
    /\ props0 = [c \in Calls |-> <<>>]
    /\ shared = [c \in Calls |-> FALSE]
    /\ data = [c \in Calls |-> NoData]
    /\ req = [c \in Calls |-> NoReq]
    /\ response = [c \in Calls |-> ""]
    /\ err = [c \in Calls |-> NilErr]
    /\ result = [c \in Calls |-> NoResult]
    /\ crashed = FALSE

\* A mutant of lines 45 and 124: one map, of the package, serves every call.
DataSlotOfPackage(c) == 1

\* The variable data of a call is the call's own: each call makes its map
\* (lines 45 and 124).
DataSlot(c) == c

InFlight(c) == pc[c] \notin {"idle", "done", "panic", "dead"}
Quiescent == \A c \in Calls : ~InFlight(c)

\* The caller sets the exported field OverrideIPAddress (line 24) of its
\* client; the client is not touched while a call is running (spec, 3).
SetOverrideIPAddress(ip) ==
    /\ ~crashed
    /\ m # NilPtr
    /\ Quiescent
    /\ m.OverrideIPAddress # ip
    /\ m' = [m EXCEPT !.OverrideIPAddress = ip]
    /\ UNCHANGED <<args, heap, pc, frame, shared, crashed>>

(***************************************************************************)
(* The public methods (lines 44, 66-121): each enters Track or engage.     *)
(***************************************************************************)
\* A mutant of line 75: ProfileSetOnce passes "$set".
OpKeySetOnceAsSet(api) ==
    CASE api = "ProfileSet" -> "$set"
      [] api = "ProfileSetOnce" -> "$set"
      [] api = "ProfileAdd" -> "$add"
      [] api = "ProfileAppend" -> "$append"
      [] api = "ProfileUnion" -> "$union"
      [] api = "ProfileUnset" -> "$unset"
      [] api = "ProfileDelete" -> "$delete"

\* The operation key each profile method passes to engage (lines 67-114).
OpKey(api) ==
    CASE api = "ProfileSet" -> "$set"
      [] api = "ProfileSetOnce" -> "$set_once"
      [] api = "ProfileAdd" -> "$add"
      [] api = "ProfileAppend" -> "$append"
      [] api = "ProfileUnion" -> "$union"
      [] api = "ProfileUnset" -> "$unset"
      [] api = "ProfileDelete" -> "$delete"

ProfileApis == ProfileMapApis \cup {"ProfileAdd", "ProfileUnset", "ProfileDelete"}

\* The calls in flight that hold the map p, one side being a Track: Track
\* writes the map, every call reads it.
Sharers(c, fn, p) ==
    IF p.t = "map" /\ p.v # NilRef
    THEN {d \in Calls \ {c} : /\ InFlight(d)
                              /\ call[d].props = p
                              /\ (fn = "Track" \/ call[d].fn = "Track")}
    ELSE {}

Contents(p, h) == IF p.t = "map" /\ p.v # NilRef THEN h[p.v] ELSE <<>>

Enter(c, fr, h) ==
    /\ ~crashed
    /\ pc[c] = "idle"
    /\ pc' = [pc EXCEPT ![c] = fr.fn]
    /\ call' = [call EXCEPT ![c] = fr]
    /\ heap' = h
    /\ props0' = [props0 EXCEPT ![c] = Contents(fr.props, h)]
    /\ shared' = [d \in Calls |->
                    IF d = c THEN Sharers(c, fr.fn, fr.props) # {}
                    ELSE shared[d] \/ d \in Sharers(c, fr.fn, fr.props)]
    /\ UNCHANGED <<args, m, data, req, response, err, result, crashed>>

\* m.Track(event, properties), line 44.
CallTrack(c, event, p) ==
    Enter(c, [api |-> "Track", fn |-> "Track", name |-> event, op |-> "",
              props |-> p, ids |-> <<>>], heap)

\* m.ProfileSet(distinctID, properties) and the like, lines 66-115.
Profile(api, distinctID, p) ==
    [api |-> api, fn |-> "engage", name |-> distinctID, op |-> OpKey(api),
     props |-> IF api = "ProfileDelete" THEN GoString("") ELSE p, ids |-> <<>>]

CallProfile(c, api, distinctID, p) == Enter(c, Profile(api, distinctID, p), heap)

\* A mutant of line 120: the two IDs change places.
AliasPropsSwapped(oldID, newID) ==
    ("distinct_id" :> GoString(newID)) @@ ("alias" :> GoString(oldID))

\* The map literal of line 120.
AliasProps(oldID, newID) ==
    ("distinct_id" :> GoString(oldID)) @@ ("alias" :> GoString(newID))

\* m.ProfileCreateAliasDistinctIdToAlias(oldID, newID), lines 119-121
\* (Alias, lines 245-247, in the earlier revision of the file).
CallAlias(c, oldID, newID) ==
    Enter(c, [api |-> "Alias", fn |-> "Track", name |-> "$create_alias",
              op |-> "", props |-> GoMap(PrivRef(c)), ids |-> <<oldID, newID>>],
          [heap EXCEPT ![PrivRef(c)] = AliasProps(oldID, newID)])

(***************************************************************************)
(* Track (lines 44-61).                                                    *)
(***************************************************************************)
\* Mutants of line 48: an entry the caller set is kept; nothing is written.
TrackInjectKeep(props, token) ==
    IF "token" \in DOMAIN props THEN props
    ELSE [k \in DOMAIN props \cup {"token"} |->
             IF k = "token" THEN GoString(token) ELSE props[k]]

TrackInjectNothing(props, token) == props

\* properties["token"] = m.Token (line 48), on the contents of the map.
TrackInject(props, token) ==
    [k \in DOMAIN props \cup {"token"} |->
        IF k = "token" THEN GoString(token) ELSE props[k]]

\* data after lines 45-49: the properties entry is the caller's map itself.
TrackData(event, properties) ==
    ("event" :> GoString(event)) @@ ("properties" :> properties)

\* Lines 45-49.  A nil receiver (m.Token) or a nil map (the assignment of
\* line 48) panics.
TrackBuild(c) ==
    /\ ~crashed
    /\ pc[c] = "Track"
    /\ IF m = NilPtr \/ call[c].props.v = NilRef
       THEN /\ pc' = [pc EXCEPT ![c] = "panic"]
            /\ UNCHANGED <<heap, data>>
       ELSE /\ heap' = [heap EXCEPT ![call[c].props.v] = TrackInject(@, m.Token)]
            /\ data' = [data EXCEPT ![DataSlot(c)] =
                           TrackData(call[c].name, call[c].props)]
            /\ pc' = [pc EXCEPT ![c] = "get"]
    /\ UNCHANGED <<args, m, call, props0, shared, req, response, err, result, crashed>>

\* Mutants of lines 52-60: only "0" is a failure; the body is looked at
\* before the error.
TrackResultOnlyZero(resp, e) ==
    IF e # NilErr THEN e
    ELSE IF resp = "0" THEN ErrUnexpectedTrackResponse
    ELSE NilErr

TrackResultBodyFirst(resp, e) ==
    IF resp # "1" THEN ErrUnexpectedTrackResponse
    ELSE IF e # NilErr THEN e
    ELSE NilErr

\* Lines 52-60.
TrackResult(resp, e) ==
    IF e # NilErr THEN e
    ELSE IF resp # "1" THEN ErrUnexpectedTrackResponse
    ELSE NilErr

(***************************************************************************)
(* engage (lines 123-143).                                                 *)
(***************************************************************************)
\* A mutant of lines 124-131: the override IP is left out, as it is in the
\* earlier revision of engage (lines 249-254).
EngageDataNoIP(mm, distinctID, op, properties) ==
    (op :> properties)
    @@ ("$token" :> GoString(mm.Token))
    @@ ("$distinct_id" :> GoString(distinctID))

\* data after lines 124-131; data[op] is assigned last.
EngageData(mm, distinctID, op, properties) ==
    (op :> properties)
    @@ (IF Len(mm.OverrideIPAddress) > 0
        THEN ("$ip" :> GoString(mm.OverrideIPAddress)) ELSE <<>>)
    @@ ("$token" :> GoString(mm.Token))
    @@ ("$distinct_id" :> GoString(distinctID))

\* Lines 124-131.  A nil receiver panics at m.Token.
EngageBuild(c) ==
    /\ ~crashed
    /\ pc[c] = "engage"
    /\ IF m = NilPtr
       THEN /\ pc' = [pc EXCEPT ![c] = "panic"]
            /\ UNCHANGED data
       ELSE /\ data' = [data EXCEPT ![DataSlot(c)] =
                           EngageData(m, call[c].name, call[c].op, call[c].props)]
            /\ pc' = [pc EXCEPT ![c] = "get"]
    /\ UNCHANGED <<args, m, heap, call, props0, shared, req, response, err,
                   result, crashed>>

\* A mutant of lines 134-142: the error of Track is returned.
EngageResultTrackError(resp, e) ==
    IF e # NilErr THEN e
    ELSE IF resp # "1" THEN ErrUnexpectedTrackResponse
    ELSE NilErr

\* Lines 134-142.
EngageResult(resp, e) ==
    IF e # NilErr THEN e
    ELSE IF resp # "1" THEN ErrUnexpectedEngageResponse
    ELSE NilErr

(***************************************************************************)
(* get (lines 145-162).                                                    *)
(***************************************************************************)
\* The path of lines 51 and 133.
Path(fn) == IF fn = "Track" THEN "/track/" ELSE "/engage/"

\* fmt.Sprintf("%s?data=%s", url, base64JSONData) of line 153, with url the
\* fmt.Sprintf("%s/track/", m.BaseURL) of line 51 (or 133).
RequestURL(baseURL, fn, jsonedData) ==
    [url |-> baseURL \o Path(fn), data |-> EncodeToString(jsonedData)]

\* Lines 146-151: json.Marshal walks the maps as they are now.
GetEncode(c) ==
    /\ ~crashed
    /\ pc[c] = "get"
    /\ LET j == MarshalObject(data[DataSlot(c)], heap)
       IN  IF ~j.ok
           THEN /\ response' = [response EXCEPT ![c] = ""]
                /\ err' = [err EXCEPT ![c] = ErrMarshal]
                /\ pc' = [pc EXCEPT ![c] = "ret"]
                /\ UNCHANGED req
           ELSE /\ req' = [req EXCEPT ![c] = RequestURL(m.BaseURL, call[c].fn, j.bytes)]
                /\ pc' = [pc EXCEPT ![c] = "http"]
                /\ UNCHANGED <<response, err>>
    /\ UNCHANGED <<args, m, heap, call, props0, shared, data, result, crashed>>

\* Lines 153-156: http.Get fails, or answers.
HttpGet(c) ==
    /\ ~crashed
    /\ pc[c] = "http"
    /\ \/ /\ response' = [response EXCEPT ![c] = ""]
          /\ err' = [err EXCEPT ![c] = ErrConnect]
          /\ pc' = [pc EXCEPT ![c] = "ret"]
       \/ /\ pc' = [pc EXCEPT ![c] = "read"]
          /\ UNCHANGED <<response, err>>
    /\ UNCHANGED <<args, m, heap, call, props0, shared, data, req, result, crashed>>

\* Lines 159-161: ioutil.ReadAll returns what it read and its error.
ReadAll(c, body, e) ==
    /\ ~crashed
    /\ pc[c] = "read"
    /\ response' = [response EXCEPT ![c] = body]
    /\ err' = [err EXCEPT ![c] = e]
    /\ pc' = [pc EXCEPT ![c] = "ret"]
    /\ UNCHANGED <<args, m, heap, call, props0, shared, data, req, result, crashed>>

\* The error the method returns: lines 52-60 and 134-142.
Result(fn, resp, e) ==
    IF fn = "Track" THEN TrackResult(resp, e) ELSE EngageResult(resp, e)

\* The method returns; the map of line 120 is garbage from here on.
Return(c) ==
    /\ ~crashed
    /\ pc[c] = "ret"
    /\ result' = [result EXCEPT ![c] = Result(call[c].fn, response[c], err[c])]
    /\ pc' = [pc EXCEPT ![c] = "done"]
    /\ heap' = [heap EXCEPT ![PrivRef(c)] = <<>>]
    /\ UNCHANGED <<args, m, call, props0, shared, data, req, response, err, crashed>>

(***************************************************************************)
(* The caller.                                                             *)
(***************************************************************************)
\* The goroutine takes the error the method returned and is free for its
\* next call; the frame of the call is gone.
Collect(c) ==
    /\ ~crashed
    /\ pc[c] = "done"
    /\ pc' = [pc EXCEPT ![c] = "idle"]
    /\ call' = [call EXCEPT ![c] = NoCall]
    /\ props0' = [props0 EXCEPT ![c] = <<>>]
    /\ shared' = [shared EXCEPT ![c] = FALSE]
    /\ data' = [data EXCEPT ![DataSlot(c)] = NoData]
    /\ req' = [req EXCEPT ![c] = NoReq]
    /\ response' = [response EXCEPT ![c] = ""]
    /\ err' = [err EXCEPT ![c] = NilErr]
    /\ result' = [result EXCEPT ![c] = NoResult]
    /\ UNCHANGED <<args, m, heap, crashed>>

\* The caller writes properties[k] = v into a map of its own.
CallerSet(r, k, v) ==
    /\ ~crashed
    /\ (IF k \in DOMAIN heap[r] THEN heap[r][k] # v ELSE TRUE)
    /\ heap' = [heap EXCEPT ![r] = (k :> v) @@ @]
    /\ shared' = [d \in Calls |->
                    shared[d] \/ (InFlight(d) /\ call[d].props = GoMap(r))]
    /\ UNCHANGED <<args, m, pc, frame, crashed>>

\* Unsynchronised accesses to one map, one of them a write, are a data race:
\* the runtime may stop the process ("fatal error: concurrent map writes",
\* "concurrent map iteration and map write") or let the accesses through.
\* Nothing of the goroutines outlives the process.
RaceFault ==
    /\ ~crashed
    /\ \E c \in Calls : InFlight(c) /\ shared[c]
    /\ crashed' = TRUE
    /\ pc' = [c \in Calls |-> "dead"]
    /\ call' = [c \in Calls |-> NoCall]
    /\ props0' = [c \in Calls |-> <<>>]
    /\ shared' = [c \in Calls |-> FALSE]
    /\ data' = [c \in Calls |-> NoData]
    /\ req' = [c \in Calls |-> NoReq]
    /\ response' = [c \in Calls |-> ""]
    /\ err' = [c \in Calls |-> NilErr]
    /\ result' = [c \in Calls |-> NoResult]
    /\ UNCHANGED <<args, m, heap>>

Step(c, in) ==
    \/ \E e \in Events, p \in in.maps : CallTrack(c, e, p)
    \/ \E a \in in.apis, d \in DistinctIDs, p \in in.maps : CallProfile(c, a, d, p)
    \/ \E d \in DistinctIDs : CallProfile(c, "ProfileAdd", d, AddArg)
    \/ \E d \in DistinctIDs : CallProfile(c, "ProfileUnset", d, UnsetArg)
    \/ \E d \in DistinctIDs : CallProfile(c, "ProfileDelete", d, GoString(""))
    \/ \E ids \in in.ids : CallAlias(c, ids[1], ids[2])
    \/ TrackBuild(c)
    \/ EngageBuild(c)
    \/ GetEncode(c)
    \/ HttpGet(c)
    \/ \E rd \in in.reads : ReadAll(c, rd[1], rd[2])
    \/ Return(c)
    \/ Collect(c)

\* One goroutine: the caller makes its calls one after another and touches
\* its maps and its client between them.
Next ==
    \/ Step(1, Inputs)
    \/ Quiescent /\ \E r \in CallerRefs, w \in CallerWrites : CallerSet(r, w[1], w[2])
    \/ \E ip \in IPs : SetOverrideIPAddress(ip)

Spec == Init /\ [][Next]_vars

\* Several goroutines: calls overlap, and the caller may write a map while
\* a call that was given it is running.
ConcStep(c) ==
    \/ \E e \in Events, p \in ConcInputs.maps : CallTrack(c, e, p)
    \/ \E a \in ConcInputs.apis, d \in DistinctIDs, p \in ConcInputs.maps :
          CallProfile(c, a, d, p)
    \/ \E ids \in ConcInputs.ids : CallAlias(c, ids[1], ids[2])
    \/ TrackBuild(c)
    \/ EngageBuild(c)
    \/ GetEncode(c)
    \/ HttpGet(c)
    \/ \E rd \in ConcInputs.reads : ReadAll(c, rd[1], rd[2])
    \/ Return(c)
    \/ Collect(c)

ConcNext ==
    \/ \E c \in Calls : ConcStep(c)
    \/ \E r \in CallerRefs, w \in CallerWrites : CallerSet(r, w[1], w[2])
    \/ RaceFault

ConcInit == Init /\ args = <<"T">>

ConcSpec == ConcInit /\ [][ConcNext]_vars

(***************************************************************************)
(* What the receiver of a request reads: the data parameter, base64-       *)
(* decoded and parsed as JSON.                                             *)
(***************************************************************************)
JString(x) == [t |-> "string", v |-> x]
JNumber(n) == [t |-> "number", v |-> n]
JNull == [t |-> "null", v |-> 0]
JArray(q) == [t |-> "array", v |-> q]
JObject(f) == [t |-> "object", v |-> f]

B64Index(ch) ==
    IF ch >= 65 /\ ch <= 90 THEN ch - 65
    ELSE IF ch >= 97 /\ ch <= 122 THEN ch - 97 + 26
    ELSE IF ch >= 48 /\ ch <= 57 THEN ch - 48 + 52
    ELSE IF ch = 43 THEN 62 ELSE 63

RECURSIVE DecodeString(_)
DecodeString(q) ==
    IF q = <<>> THEN <<>>
    ELSE LET a == B64Index(q[1])
             b == B64Index(q[2])
             rest == SubSeq(q, 5, Len(q))
         IN  IF q[3] = B64Pad THEN <<a * 4 + b \div 16>>
             ELSE IF q[4] = B64Pad
                  THEN <<a * 4 + b \div 16, (b % 16) * 16 + B64Index(q[3]) \div 4>>
             ELSE <<a * 4 + b \div 16, (b % 16) * 16 + B64Index(q[3]) \div 4,
                    (B64Index(q[3]) % 4) * 64 + B64Index(q[4])>>
                  \o DecodeString(rest)

Parsed(val, next) == [val |-> val, next |-> next]

\* The index of the quote that closes the string opened before position i.
RECURSIVE CloseQuote(_, _)
CloseQuote(b, i) == IF b[i] = 34 THEN i ELSE CloseQuote(b, i + 1)

ParseString(b, i) ==
    LET j == CloseQuote(b, i + 1)
        bytes == SubSeq(b, i + 1, j - 1)
    IN  Parsed(CHOOSE x \in Strings : Chars[x] = bytes, j + 1)

RECURSIVE ParseDigits(_, _, _)
ParseDigits(b, i, n) ==
    IF i <= Len(b) /\ b[i] >= 48 /\ b[i] <= 57
    THEN ParseDigits(b, i + 1, 10 * n + (b[i] - 48))
    ELSE Parsed(n, i)

ParseNumber(b, i) ==
    IF b[i] = 45
    THEN LET d == ParseDigits(b, i + 1, 0) IN Parsed(JNumber(0 - d.val), d.next)
    ELSE LET d == ParseDigits(b, i, 0) IN Parsed(JNumber(d.val), d.next)

RECURSIVE ParseValue(_, _)
RECURSIVE ParseMembers(_, _, _)
RECURSIVE ParseElements(_, _, _)
\* The members of an object from position i on; a repeated key keeps its
\* last value.
ParseMembers(b, i, acc) ==
    LET k == ParseString(b, i)
        x == ParseValue(b, k.next + 1)
        f == (k.val :> x.val) @@ acc
    IN  IF b[x.next] = 44 THEN ParseMembers(b, x.next + 1, f)
        ELSE Parsed(JObject(f), x.next + 1)

ParseElements(b, i, acc) ==
    LET x == ParseValue(b, i)
    IN  IF b[x.next] = 44 THEN ParseElements(b, x.next + 1, Append(acc, x.val))
        ELSE Parsed(JArray(Append(acc, x.val)), x.next + 1)

ParseValue(b, i) ==
    CASE b[i] = 34 -> LET x == ParseString(b, i) IN Parsed(JString(x.val), x.next)
      [] b[i] = 123 -> IF b[i + 1] = 125 THEN Parsed(JObject(<<>>), i + 2)
                       ELSE ParseMembers(b, i + 1, <<>>)
      [] b[i] = 91 -> IF b[i + 1] = 93 THEN Parsed(JArray(<<>>), i + 2)
                      ELSE ParseElements(b, i + 1, <<>>)
      [] b[i] = 110 -> Parsed(JNull, i + 4)
      [] OTHER -> ParseNumber(b, i)

\* The envelope a request carries.
Envelope(rq) == ParseValue(DecodeString(rq.data), 1).val

\* http.Get was called for the call c.
Sent(c) == req[c] # NoReq /\ pc[c] \in {"read", "ret", "done"}
Returned(c) == pc[c] = "done"

\* The JSON value that stands for a Go value the caller passed, the maps
\* with the contents f.
JSONOf(x, f) ==
    CASE x.t = "string" -> JString(x.v)
      [] x.t = "int" -> JNumber(x.v)
      [] x.t = "map" -> IF x.v = NilRef THEN JNull
                        ELSE JObject([k \in DOMAIN f |->
                                 IF f[k].t = "int" THEN JNumber(f[k].v)
                                 ELSE JString(f[k].v)])
      [] x.t = "intmap" -> JObject([k \in DOMAIN x.v |-> JNumber(x.v[k])])
      [] x.t = "strings" -> JArray([i \in 1 .. Len(x.v) |-> JString(x.v[i])])

(***************************************************************************)
(* C1.  When the GET and the read of the body succeed, Track returns no    *)
(* error if and only if the body is exactly "1"; for every other body it   *)
(* returns ErrUnexpectedTrackResponse, never ErrUnexpectedEngageResponse.  *)
(***************************************************************************)
C1_TrackResponse ==
    \A c \in Calls :
        (Returned(c) /\ call[c].api = "Track" /\ Sent(c) /\ err[c] = NilErr) =>
            /\ (result[c] = NilErr) <=> (response[c] = "1")
            /\ (response[c] # "1") => result[c] = ErrUnexpectedTrackResponse
            /\ result[c] # ErrUnexpectedEngageResponse

C1_Witness ==
    \E c \in Calls :
        /\ Returned(c) /\ call[c].api = "Track" /\ Sent(c) /\ err[c] = NilErr
        /\ response[c] = ""
        /\ result[c] = ErrUnexpectedTrackResponse

(***************************************************************************)
(* C2.  When the GET and the read of the body succeed, each of the seven   *)
(* profile operations returns no error if and only if the body is exactly  *)
(* "1"; for every other body it returns ErrUnexpectedEngageResponse, never *)
(* ErrUnexpectedTrackResponse.                                             *)
(***************************************************************************)
C2_EngageResponse ==
    \A c \in Calls :
        (Returned(c) /\ call[c].api \in ProfileApis /\ Sent(c) /\ err[c] = NilErr) =>
            /\ (result[c] = NilErr) <=> (response[c] = "1")
            /\ (response[c] # "1") => result[c] = ErrUnexpectedEngageResponse
            /\ result[c] # ErrUnexpectedTrackResponse

C2_Witness ==
    \E c \in Calls :
        /\ Returned(c) /\ call[c].api = "ProfileDelete" /\ Sent(c) /\ err[c] = NilErr
        /\ response[c] = "0"
        /\ result[c] = ErrUnexpectedEngageResponse

(***************************************************************************)
(* C3.  When get fails (json.Marshal, http.Get or the read of the body),   *)
(* every public operation returns exactly the error get returned, and      *)
(* neither ErrUnexpectedTrackResponse nor ErrUnexpectedEngageResponse,     *)
(* whatever part of the body was read.                                     *)
(***************************************************************************)
C3_TransportError ==
    \A c \in Calls :
        (Returned(c) /\ err[c] # NilErr) =>
            /\ err[c] \in {ErrMarshal, ErrConnect, ErrRead}
            /\ result[c] = err[c]
            /\ result[c] \notin {ErrUnexpectedTrackResponse, ErrUnexpectedEngageResponse}

C3_Witness ==
    \E c \in Calls :
        /\ Returned(c) /\ call[c].api = "Track"
        /\ err[c] = ErrRead /\ response[c] = "0"
        /\ result[c] = ErrRead

(***************************************************************************)
(* C4.  The envelope Track sends to <BaseURL>/track/ has exactly the keys  *)
(* "event" and "properties"; "event" is the name given, and "properties"   *)
(* holds every entry of the caller's map under another key than "token",   *)
(* and "token" with the client's Token, also when the caller's map had a   *)
(* "token" entry with another value.                                       *)
(***************************************************************************)
C4_TrackEnvelope ==
    \A c \in Calls :
        (call[c].api = "Track" /\ Sent(c)) =>
            LET env == Envelope(req[c])
            IN  /\ req[c].url = m.BaseURL \o "/track/"
                /\ env.t = "object"
                /\ DOMAIN env.v = {"event", "properties"}
                /\ env.v["event"] = JString(call[c].name)
                /\ env.v["properties"].t = "object"
                /\ DOMAIN env.v["properties"].v = DOMAIN props0[c] \cup {"token"}
                /\ env.v["properties"].v["token"] = JString(m.Token)
                /\ \A k \in DOMAIN props0[c] \ {"token"} :
                      env.v["properties"].v[k] = JSONOf(props0[c][k], <<>>)

C4_Witness ==
    \E c \in Calls :
        /\ call[c].api = "Track" /\ Sent(c)
        /\ "token" \in DOMAIN props0[c]
        /\ props0[c]["token"] = GoString("U")
        /\ m.Token = "T"

\* The operation key the table of the specification (4.3) gives each method.
TableKey ==
    ("ProfileSet" :> "$set") @@ ("ProfileSetOnce" :> "$set_once")
    @@ ("ProfileAdd" :> "$add") @@ ("ProfileAppend" :> "$append")
    @@ ("ProfileUnion" :> "$union") @@ ("ProfileUnset" :> "$unset")
    @@ ("ProfileDelete" :> "$delete")

(***************************************************************************)
(* C5.  The envelope a profile operation sends to <BaseURL>/engage/ holds  *)
(* "$token" with the client's Token, "$distinct_id" with the distinct ID   *)
(* given, and exactly one operation key, the one the table of the          *)
(* specification gives the operation, with the caller's value (the empty   *)
(* string for ProfileDelete); apart from "$ip" there is no other key.      *)
(***************************************************************************)
C5_EngageEnvelope ==
    \A c \in Calls :
        (call[c].api \in ProfileApis /\ Sent(c)) =>
            LET env == Envelope(req[c])
                key == TableKey[call[c].api]
            IN  /\ req[c].url = m.BaseURL \o "/engage/"
                /\ env.t = "object"
                /\ DOMAIN env.v \ {"$ip"} = {"$token", "$distinct_id", key}
                /\ env.v["$token"] = JString(m.Token)
                /\ env.v["$distinct_id"] = JString(call[c].name)
                /\ env.v[key] = IF call[c].api = "ProfileDelete" THEN JString("")
                                ELSE JSONOf(call[c].props, props0[c])

C5_Witness ==
    \E c \in Calls :
        /\ call[c].api = "ProfileSetOnce" /\ Sent(c)
        /\ call[c].props.t = "map"
        /\ call[c].props.v # NilRef
        /\ m.OverrideIPAddress = "9"

(***************************************************************************)
(* C6.  While a profile operation runs, the envelope it has sent holds     *)
(* "$ip" with the client's override IP if that is set, and no "$ip" if it  *)
(* is not; the envelope of a Track never holds the override IP.  (The      *)
(* caller may set the field again once the call has returned.)             *)
(***************************************************************************)
C6_OverrideIP ==
    \A c \in Calls :
        /\ (call[c].fn = "engage" /\ Sent(c) /\ InFlight(c)) =>
              LET env == Envelope(req[c])
              IN  IF m.OverrideIPAddress # ""
                  THEN /\ "$ip" \in DOMAIN env.v
                       /\ env.v["$ip"] = JString(m.OverrideIPAddress)
                  ELSE "$ip" \notin DOMAIN env.v
        /\ (call[c].fn = "Track" /\ Sent(c)) =>
              LET env == Envelope(req[c])
              IN  /\ "$ip" \notin DOMAIN env.v
                  /\ "$ip" \notin DOMAIN env.v["properties"].v

C6_Witness ==
    \E c \in Calls :
        /\ call[c].fn = "engage" /\ Sent(c) /\ InFlight(c)
        /\ m.OverrideIPAddress = "9"
        /\ "$ip" \in DOMAIN Envelope(req[c]).v
        /\ Envelope(req[c]).v["$ip"] = JString("9")

(***************************************************************************)
(* C7.  The alias operation is Track("$create_alias", {distinct_id:        *)
(* oldID, alias: newID}): its request goes to <BaseURL>/track/ with the    *)
(* event "$create_alias" and the properties distinct_id, alias and token,  *)
(* and it returns what Track returns: nil, ErrUnexpectedTrackResponse or   *)
(* the error of get.                                                       *)
(***************************************************************************)
C7_Alias ==
    \A c \in Calls :
        call[c].api = "Alias" =>
            /\ Sent(c) =>
                  /\ req[c].url = m.BaseURL \o "/track/"
                  /\ Envelope(req[c]) =
                        JObject(("event" :> JString("$create_alias"))
                             @@ ("properties" :>
                                   JObject(("distinct_id" :> JString(call[c].ids[1]))
                                        @@ ("alias" :> JString(call[c].ids[2]))
                                        @@ ("token" :> JString(m.Token)))))
            /\ Returned(c) =>
                  /\ Sent(c)
                  /\ result[c] = IF err[c] # NilErr THEN err[c]
                                 ELSE IF response[c] = "1" THEN NilErr
                                 ELSE ErrUnexpectedTrackResponse

C7_Witness ==
    \E c \in Calls :
        /\ call[c].api = "Alias" /\ call[c].ids = <<"a", "b">>
        /\ Returned(c) /\ Sent(c)
        /\ result[c] = NilErr

(***************************************************************************)
(* C8.  NewMixpanelClient returns, for every argument list, a client: its  *)
(* Token is the first argument, its BaseURL the default host when no base  *)
(* URL is given and the second argument when one is, its override IP       *)
(* unset.  (Init is the state NewMixpanelClient leaves.)                   *)
(***************************************************************************)
C8_Constructor ==
    Init =>
        /\ m # NilPtr
        /\ m.Token = args[1]
        /\ m.BaseURL = (IF Len(args) = 1 THEN "https://api.mixpanel.com" ELSE args[2])
        /\ m.OverrideIPAddress = ""

(***************************************************************************)
(* C10.  When a Track call returns, with no error, with                    *)
(* ErrUnexpectedTrackResponse or with an error of get, the caller's map    *)
(* has "token" with the client's Token and every other entry as it was;    *)
(* when a profile operation returns, the caller's map is as it was.        *)
(***************************************************************************)
C10_CallerMap ==
    [][\A c \in Calls :
          (pc[c] = "ret" /\ pc'[c] = "done" /\ call[c].props.t = "map"
              /\ call[c].props.v \in CallerRefs) =>
             LET after == heap'[call[c].props.v]
             IN  IF call[c].api = "Track"
                 THEN /\ DOMAIN after = DOMAIN props0[c] \cup {"token"}
                      /\ after["token"] = GoString(m.Token)
                      /\ \A k \in DOMAIN props0[c] \ {"token"} : after[k] = props0[c][k]
                 ELSE after = props0[c]]_vars

C10_Witness ==
    \E c \in Calls :
        /\ Returned(c) /\ call[c].api = "Track"
        /\ call[c].props.t = "map"
        /\ call[c].props.v \in CallerRefs
        /\ result[c] = ErrMarshal
        /\ "token" \in DOMAIN props0[c]
        /\ props0[c]["token"] = GoString("U")
        /\ "token" \in DOMAIN heap[call[c].props.v]
        /\ heap[call[c].props.v]["token"] = GoString("T")

\* What the call c does on its own, from its arguments as they were when it
\* began: json.Marshal fails, or this envelope goes out.
AloneFails(c) == \E k \in DOMAIN props0[c] : props0[c][k] = GoFunc

AloneEnvelope(c) ==
    IF call[c].fn = "Track"
    THEN JObject(("event" :> JString(call[c].name))
              @@ ("properties" :>
                    JSONOf(call[c].props,
                           ("token" :> GoString(m.Token)) @@ props0[c])))
    ELSE JObject((TableKey[call[c].api] :> JSONOf(call[c].props, props0[c]))
              @@ ("$token" :> JString(m.Token))
              @@ ("$distinct_id" :> JString(call[c].name)))

AloneResult(c) ==
    IF AloneFails(c) THEN ErrMarshal
    ELSE IF err[c] # NilErr THEN err[c]
    ELSE IF response[c] = "1" THEN NilErr
    ELSE IF call[c].fn = "Track" THEN ErrUnexpectedTrackResponse
    ELSE ErrUnexpectedEngageResponse

=============================================================================
